---- MODULE Spec2Model ----
(***************************************************************************)
(* The vocabulary store of the tutor backend and its SM-2 review step      *)
(* (backend/app/crud/word.py, backend/app/models/word.py,                  *)
(* backend/app/api/words.py).                                              *)
(*                                                                         *)
(* Numbers: the ease factor is a float in the code; here it is counted in  *)
(* hundredths (2.5 is 250, 1.3 is 130).  Timestamps are clock ticks,       *)
(* TicksPerDay of them to a day.                                           *)
(***************************************************************************)
EXTENDS Integers, Sequences, FiniteSets, TLC

\* ---- bounds of the model
MaxWords == 2
MaxTime == 2
MaxLimit == 2
\* update_progress calls per topic
MaxPractice == 5
\* rows of the session table
MaxSessions == 3

\* ---- program constants
DefaultEaseFactor == 250
DefaultMasteryScore == 0
DefaultCount == 0
MinEaseFactor == 130
MaxIntervalDays == 365
MaxMastery == 10
QualityCorrect == 5
QualityWrong == 1
\* mastery_score >= 7: the dashboard's "mastered"
MasteredThreshold == 7
\* min(10, ...): the top of the topic mastery score
TopicMaxMastery == 10
\* MAX_RETRIES
MAX_RETRIES == 3
\* a NULL timestamp (next_review_at and last_reviewed_at are nullable)
NoTime == -1
\* one day of timedelta(days=...) in clock ticks
TicksPerDay == 2

Users == {1, 2}
Languages == {"hr", "it"}
\* the falsy `language` argument (None): no language filter
NoLanguage == ""
Texts == {"pas", "Pas"}
Requests == {1, 2}
WordIds == 1..MaxWords
\* ids a caller may name: the ids handed out and one that never exists
AnyIds == 1..(MaxWords + 1)

VARIABLES
    words,      \* the word table: id -> row
    nextId,     \* the next primary key the table hands out
    now,        \* the clock, datetime.now(timezone.utc)
    resp,       \* what the last completed call returned (or raised)
    req,        \* per request: a review handler suspended at its await
    progress,   \* the topic_progress table: <<user_id, topic_id>> -> row
    gen,        \* the GeminiService._generate call in progress
    sessions,   \* the session table: id -> row
    calls       \* per request: a get_or_create_active suspended at its await

vars == <<words, nextId, now, resp, req, progress, gen, sessions, calls>>

Max(a, b) == IF a >= b THEN a ELSE b
Min(a, b) == IF a <= b THEN a ELSE b
\* Python's int(): truncation toward zero of a / b, b > 0
Trunc(a, b) == IF a >= 0 THEN a \div b ELSE -((-a) \div b)

\* ---- rows

\* Word(...) as WordCRUD.create builds it: the column defaults of the model
NewWord(user_id, language, croatian, t) ==
    [user_id |-> user_id, language |-> language, croatian |-> croatian,
     mastery_score |-> DefaultMasteryScore, ease_factor |-> DefaultEaseFactor,
     correct_count |-> DefaultCount, wrong_count |-> DefaultCount,
     correct_streak |-> DefaultCount,
     next_review_at |-> t, last_reviewed_at |-> NoTime]

\* stands for Python's None where a row is expected
NoWord == NewWord(0, NoLanguage, "", NoTime)

\* get without its owner filter: select(Word).where(Word.id == word_id)
getMatchesAnyOwner(ws, word_id, user_id) ==
    IF word_id \in DOMAIN ws
    THEN [found |-> TRUE, word |-> ws[word_id]]
    ELSE [found |-> FALSE, word |-> NoWord]

\* WordCRUD.get:
\* select(Word).where(Word.id == word_id, Word.user_id == user_id)
get(ws, word_id, user_id) ==
    IF word_id \in DOMAIN ws /\ ws[word_id].user_id = user_id
    THEN [found |-> TRUE, word |-> ws[word_id]]
    ELSE [found |-> FALSE, word |-> NoWord]

\* ---- the SM-2 step of process_review (lines 215-251)

\* EF' = EF + (0.1 - (5 - q) * (0.08 + (5 - q) * 0.02)), in hundredths
NewEf(ease_factor, quality) ==
    ease_factor + (10 - (5 - quality) * (8 + (5 - quality) * 2))

\* The (correct_count, total_reviews) pairs, total below 10, for which the
\* float product success_rate * 10 * experience_factor falls just short of
\* the exact value correct_count, so that int() gives one less.
FloatShort ==
    {<<1, 3>>, <<2, 3>>, <<1, 6>>, <<2, 6>>, <<4, 6>>,
     <<1, 7>>, <<2, 7>>, <<3, 7>>, <<4, 7>>, <<6, 7>>}

\* int(success_rate * 10 * experience_factor)
\*   success_rate = correct_count / total_reviews
\*   experience_factor = min(1.0, total_reviews / 10)
MasteryInt(correct_count, total_reviews) ==
    IF total_reviews >= 10
    THEN Trunc(10 * correct_count, total_reviews)
    ELSE IF <<correct_count, total_reviews>> \in FloatShort
         THEN correct_count - 1
         ELSE correct_count

RECURSIVE IntervalGrow(_, _, _)
\* base_interval = base_interval * ease_factor, n times; a fraction num/den
IntervalGrow(base, ease_factor, n) ==
    IF n <= 0 THEN base
    ELSE IntervalGrow([num |-> base.num * ease_factor, den |-> base.den * 100],
                      ease_factor, n - 1)

\* WordCRUD._calculate_interval: days, as a fraction num/den
calculate_interval(correct_streak, ease_factor) ==
    IF correct_streak <= 1 THEN [num |-> 1, den |-> 1]
    ELSE IF correct_streak = 2 THEN [num |-> 6, den |-> 1]
    ELSE LET base == IntervalGrow([num |-> 6, den |-> 1], ease_factor,
                                  correct_streak - 2)
         IN IF base.num <= MaxIntervalDays * base.den
            THEN base
            ELSE [num |-> MaxIntervalDays, den |-> 1]

\* timedelta(days=interval_days) in ticks
IntervalTicks(interval) == (interval.num * TicksPerDay) \div interval.den

\* lines 215-251: the row as the handler leaves it before the flush
ReviewedWord(word, correct, t) ==
    LET cc == IF correct THEN word.correct_count + 1 ELSE word.correct_count
        wc == IF correct THEN word.wrong_count ELSE word.wrong_count + 1
        streak == IF correct THEN word.correct_streak + 1 ELSE 0
        quality == IF correct THEN QualityCorrect ELSE QualityWrong
        ef == Max(MinEaseFactor, NewEf(word.ease_factor, quality))
        total_reviews == cc + wc
        mastery == IF total_reviews > 0
                   THEN Min(MaxMastery, MasteryInt(cc, total_reviews))
                   ELSE word.mastery_score
        interval == IF correct THEN calculate_interval(streak, ef)
                    ELSE [num |-> 1, den |-> 1]
    IN [word EXCEPT !.last_reviewed_at = t,
                    !.correct_count = cc,
                    !.wrong_count = wc,
                    !.correct_streak = streak,
                    !.ease_factor = ef,
                    !.mastery_score = mastery,
                    !.next_review_at = t + IntervalTicks(interval)]

\* line 213, print.info(...): `print` is the builtin function, which has no
\* attribute `info`, so evaluating the call raises AttributeError
PrintInfoRaises == TRUE

\* ---- due selection

\* the due test with < in place of <=
IsDueStrict(word, t) ==
    (word.next_review_at # NoTime /\ word.next_review_at < t)
        \/ word.next_review_at = NoTime

\* (Word.next_review_at <= now) | (Word.next_review_at.is_(None))
IsDue(word, t) ==
    (word.next_review_at # NoTime /\ word.next_review_at <= t)
        \/ word.next_review_at = NoTime

\* the WHERE clause without its user_id test
DueIdsAnyUser(ws, user_id, language, t) ==
    {i \in DOMAIN ws :
        /\ IsDue(ws[i], t)
        /\ (language = NoLanguage \/ ws[i].language = language)}

\* the WHERE clause of get_due_words and count_due_words
DueIds(ws, user_id, language, t) ==
    {i \in DOMAIN ws :
        /\ ws[i].user_id = user_id
        /\ IsDue(ws[i], t)
        /\ (language = NoLanguage \/ ws[i].language = language)}

\* the sort key of .desc() in place of .asc()
DateKeyDescending(word) ==
    IF word.next_review_at = NoTime THEN -1
    ELSE MaxTime - (word.next_review_at \div TicksPerDay)

\* Word.next_review_at.cast(Date).asc().nullsfirst()
DateKey(word) ==
    IF word.next_review_at = NoTime THEN -1
    ELSE word.next_review_at \div TicksPerDay

\* every order of S the ORDER BY allows: ascending date, ties in any order
\* (func.random())
Orderings(ws, S) ==
    {s \in [1..Cardinality(S) -> S] :
        /\ \A i, j \in 1..Cardinality(S) : i # j => s[i] # s[j]
        /\ \A i, j \in 1..Cardinality(S) :
              i < j => DateKey(ws[s[i]]) <= DateKey(ws[s[j]])}

\* ---- listings

\* every order of the elements of S
Arrangements(S) ==
    {s \in [1..Cardinality(S) -> S] :
        \A i, j \in 1..Cardinality(S) : i # j => s[i] # s[j]}

\* the WHERE clause shared by get_multi, get_low_mastery_words and
\* get_random_words: the user's words, of the language when one is given,
\* outside exclude_ids
ListedIds(ws, user_id, language, exclude_ids) ==
    {i \in DOMAIN ws :
        /\ ws[i].user_id = user_id
        /\ (language = NoLanguage \/ ws[i].language = language)
        /\ i \notin exclude_ids}

\* every order of S that ORDER BY mastery_score allows, in direction sort_dir
MasteryOrders(ws, S, sort_dir) ==
    {s \in Arrangements(S) :
        \A i, j \in 1..Cardinality(S) :
            i < j => IF sort_dir = "desc"
                     THEN ws[s[i]].mastery_score >= ws[s[j]].mastery_score
                     ELSE ws[s[i]].mastery_score <= ws[s[j]].mastery_score}

\* query.offset(skip).limit(limit)
Page(s, skip, limit) == SubSeq(s, skip + 1, Min(Len(s), skip + limit))

NoSort == ""

\* ---- dashboard bands

\* the "learning" test with <= 7 in place of < 7
InBandInclusive(band, mastery_score) ==
    IF band = "new" THEN mastery_score = 0
    ELSE IF band = "learning"
    THEN mastery_score > 0 /\ mastery_score <= MasteredThreshold
    ELSE mastery_score >= MasteredThreshold

\* the WHERE clauses on mastery_score of the three by_mastery counts
InBand(band, mastery_score) ==
    IF band = "new" THEN mastery_score = 0
    ELSE IF band = "learning"
    THEN mastery_score > 0 /\ mastery_score < MasteredThreshold
    ELSE mastery_score >= MasteredThreshold

\* select(func.count(Word.id)) over the user's words of the language in a band
BandCount(ws, user_id, language, band) ==
    Cardinality({i \in DOMAIN ws :
                    /\ ws[i].user_id = user_id
                    /\ ws[i].language = language
                    /\ InBand(band, ws[i].mastery_score)})

\* ---- update bodies

\* the fields of the WordUpdate schema
WordUpdateFields ==
    {"croatian", "english", "part_of_speech", "gender", "cefr_level"}

\* PUT bodies: `fields` are the keys the JSON body carries, the other
\* entries their values (a key the body does not carry has no value)
UpdateBodies ==
    {[fields |-> {"croatian"}, croatian |-> c, mastery_score |-> 0] :
        c \in Texts}
    \cup {[fields |-> {"croatian", "mastery_score"}, croatian |-> "Pas",
           mastery_score |-> 7],
          [fields |-> {"mastery_score"}, croatian |-> "", mastery_score |-> 7]}

\* a schema that lets every key of the body through
model_dumpKeepsAll(word_in) == word_in.fields

\* word_in.model_dump(exclude_unset=True): the keys of the body that are
\* fields of WordUpdate (the schema drops any other key)
model_dump(word_in) == word_in.fields \cap WordUpdateFields

\* for field, value in update_data.items(): setattr(word, field, value)
SetAttrs(word, word_in, update_data) ==
    [word EXCEPT
        !.croatian = IF "croatian" \in update_data
                     THEN word_in.croatian ELSE @,
        !.mastery_score = IF "mastery_score" \in update_data
                          THEN word_in.mastery_score ELSE @]

\* ---- responses

NoResp ==
    [op |-> "none", status |-> "none", word_id |-> 0, user_id |-> 0,
     language |-> NoLanguage, limit |-> 0, correct |-> FALSE,
     found |-> FALSE, prior |-> NoWord, word |-> NoWord,
     ids |-> <<>>, count |-> 0, time |-> 0, http |-> 0, fields |-> {},
     by_mastery |-> [new |-> 0, learning |-> 0, mastered |-> 0],
     topic_id |-> 0, score_delta |-> 0, correct_arg |-> "None",
     session_id |-> 0, created |-> FALSE]

IdleReq ==
    [pc |-> "idle", word_id |-> 0, user_id |-> 0, correct |-> FALSE,
     found |-> FALSE, word |-> NoWord, raced |-> FALSE, new_words |-> <<>>]

\* no _generate call in progress
IdleGen ==
    [pc |-> "idle", max_tokens |-> 0, attempt |-> 0, outcomes |-> <<>>,
     delay |-> 0, result |-> "none"]

\* no get_or_create_active in progress
IdleCall ==
    [pc |-> "idle", user_id |-> 0, exercise_type |-> "", existing |-> 0]

\* the tables other than the word table, empty, and nothing in progress
InitOther ==
    /\ progress = [k \in {} |-> 0]
    /\ gen = IdleGen
    /\ sessions = <<>>
    /\ calls = [r \in Requests |-> IdleCall]

Init ==
    /\ InitOther
    /\ words = <<>>
    /\ nextId = 1
    /\ now = 0
    /\ resp = NoResp
    /\ req = [r \in Requests |-> IdleReq]

\* Rows of a vocabulary table that reviews which ran to their flush have
\* written (lines 215-255): the store the handlers and the dashboard
\* queries are given. The second row is the one 20 correct answers, 5 wrong
\* ones and 2 correct ones leave: streak 2, ease factor 2.0, mastery
\* int(22/27 * 10) = 8, next review 6 days after the last one.
StoredRows ==
    {NewWord(1, "hr", "pas", 0),
     [NewWord(1, "hr", "pas", 6 * TicksPerDay) EXCEPT
        !.correct_count = 22, !.wrong_count = 5, !.correct_streak = 2,
        !.ease_factor = 200, !.mastery_score = 8, !.last_reviewed_at = 0],
     [NewWord(1, "hr", "pas", TicksPerDay) EXCEPT
        !.correct_count = 1, !.correct_streak = 1,
        !.ease_factor = 260, !.mastery_score = 1, !.last_reviewed_at = 0],
     [NewWord(1, "hr", "pas", TicksPerDay) EXCEPT
        !.correct_count = 6, !.wrong_count = 1, !.correct_streak = 0,
        !.ease_factor = 256, !.mastery_score = 6, !.last_reviewed_at = 0],
     [NewWord(1, "hr", "pas", TicksPerDay) EXCEPT
        !.correct_count = 7, !.wrong_count = 1, !.correct_streak = 0,
        !.ease_factor = 266, !.mastery_score = 7, !.last_reviewed_at = 0],
     [NewWord(2, "hr", "pas", TicksPerDay) EXCEPT
        !.correct_count = 7, !.wrong_count = 1, !.correct_streak = 0,
        !.ease_factor = 266, !.mastery_score = 7, !.last_reviewed_at = 0]}

\* a table of one or two stored rows
InitStored ==
    /\ InitOther
    /\ words \in {<<a>> : a \in StoredRows}
                  \cup {<<a, b>> : a \in StoredRows, b \in StoredRows}
    /\ nextId = Len(words) + 1
    /\ now = 0
    /\ resp = NoResp
    /\ req = [r \in Requests |-> IdleReq]

\* ---- the handlers

\* WordCRUD.create (the duplicate check of the endpoint is not part of it)
Create(user_id, language, croatian) ==
    /\ nextId <= MaxWords
    /\ words' = [i \in DOMAIN words \cup {nextId} |->
                    IF i = nextId THEN NewWord(user_id, language, croatian, now)
                    ELSE words[i]]
    /\ nextId' = nextId + 1
    /\ resp' = [NoResp EXCEPT !.op = "create", !.status = "ok",
                              !.word_id = nextId, !.user_id = user_id,
                              !.language = language, !.found = TRUE,
                              !.word = words'[nextId], !.time = now]
    /\ UNCHANGED <<now, req, progress, gen, sessions, calls>>

\* WordCRUD.update
Update(word_id, user_id, word_in) ==
    LET g == get(words, word_id, user_id)
        update_data == model_dump(word_in)
    IN
    /\ IF g.found
       THEN /\ words' = [words EXCEPT
                            ![word_id] = SetAttrs(g.word, word_in, update_data)]
            /\ resp' = [NoResp EXCEPT !.op = "update", !.status = "ok",
                                      !.word_id = word_id, !.user_id = user_id,
                                      !.found = TRUE, !.prior = g.word,
                                      !.word = words'[word_id], !.time = now,
                                      !.fields = word_in.fields]
       ELSE /\ words' = words
            /\ resp' = [NoResp EXCEPT !.op = "update", !.status = "none",
                                      !.word_id = word_id, !.user_id = user_id,
                                      !.time = now,
                                      !.fields = word_in.fields]
    /\ UNCHANGED <<nextId, now, req, progress, gen, sessions, calls>>

\* WordCRUD.delete
Delete(word_id, user_id) ==
    LET g == get(words, word_id, user_id) IN
    /\ IF g.found
       THEN /\ words' = [i \in DOMAIN words \ {word_id} |-> words[i]]
            /\ resp' = [NoResp EXCEPT !.op = "delete", !.status = "ok",
                                      !.word_id = word_id, !.user_id = user_id,
                                      !.found = TRUE, !.prior = g.word,
                                      !.time = now]
       ELSE /\ words' = words
            /\ resp' = [NoResp EXCEPT !.op = "delete", !.status = "none",
                                      !.word_id = word_id, !.user_id = user_id,
                                      !.time = now]
    /\ UNCHANGED <<nextId, now, req, progress, gen, sessions, calls>>

\* WordCRUD.get_due_words
GetDueWords(user_id, language, limit) ==
    /\ \E s \in Orderings(words, DueIds(words, user_id, language, now)) :
          resp' = [NoResp EXCEPT !.op = "get_due_words", !.status = "ok",
                                 !.user_id = user_id, !.language = language,
                                 !.limit = limit,
                                 !.ids = SubSeq(s, 1, Min(limit, Len(s))),
                                 !.time = now]
    /\ UNCHANGED <<words, nextId, now, req, progress, gen, sessions, calls>>

\* WordCRUD.count_due_words
CountDueWords(user_id, language) ==
    /\ resp' = [NoResp EXCEPT !.op = "count_due_words", !.status = "ok",
                              !.user_id = user_id, !.language = language,
                              !.count = Cardinality(
                                  DueIds(words, user_id, language, now)),
                              !.time = now]
    /\ UNCHANGED <<words, nextId, now, req, progress, gen, sessions, calls>>

\* WordCRUD.get as its own request
Get(word_id, user_id) ==
    LET g == get(words, word_id, user_id) IN
    /\ resp' = [NoResp EXCEPT !.op = "get",
                              !.status = IF g.found THEN "ok" ELSE "none",
                              !.word_id = word_id, !.user_id = user_id,
                              !.found = g.found, !.word = g.word, !.time = now]
    /\ UNCHANGED <<words, nextId, now, req, progress, gen, sessions, calls>>

\* WordCRUD.get_multi, with part_of_speech, cefr_level and search left None
GetMulti(user_id, language, skip, limit, sort_by, sort_dir) ==
    LET S == ListedIds(words, user_id, language, {})
        orders == IF sort_by = NoSort THEN Arrangements(S)
                  ELSE MasteryOrders(words, S, sort_dir)
    IN
    /\ \E s \in orders :
          resp' = [NoResp EXCEPT !.op = "get_multi", !.status = "ok",
                                 !.user_id = user_id, !.language = language,
                                 !.limit = limit,
                                 !.ids = Page(s, skip, limit), !.time = now]
    /\ UNCHANGED <<words, nextId, now, req, progress, gen, sessions, calls>>

\* WordCRUD.get_low_mastery_words
GetLowMasteryWords(user_id, language, limit, exclude_ids) ==
    LET S == ListedIds(words, user_id, language, exclude_ids) IN
    /\ \E s \in MasteryOrders(words, S, "asc") :
          resp' = [NoResp EXCEPT !.op = "get_low_mastery_words",
                                 !.status = "ok",
                                 !.user_id = user_id, !.language = language,
                                 !.limit = limit,
                                 !.ids = Page(s, 0, limit), !.time = now]
    /\ UNCHANGED <<words, nextId, now, req, progress, gen, sessions, calls>>

\* WordCRUD.get_random_words
GetRandomWords(user_id, language, limit, exclude_ids) ==
    LET S == ListedIds(words, user_id, language, exclude_ids) IN
    /\ \E s \in Arrangements(S) :
          resp' = [NoResp EXCEPT !.op = "get_random_words", !.status = "ok",
                                 !.user_id = user_id, !.language = language,
                                 !.limit = limit,
                                 !.ids = Page(s, 0, limit), !.time = now]
    /\ UNCHANGED <<words, nextId, now, req, progress, gen, sessions, calls>>

\* ProgressService.get_vocabulary_stats: the by_mastery part of the answer
GetVocabularyStats(user_id, language) ==
    /\ resp' = [NoResp EXCEPT
                  !.op = "get_vocabulary_stats", !.status = "ok",
                  !.user_id = user_id, !.language = language, !.time = now,
                  !.by_mastery =
                      [new |-> BandCount(words, user_id, language, "new"),
                       learning |->
                           BandCount(words, user_id, language, "learning"),
                       mastered |->
                           BandCount(words, user_id, language, "mastered")]]
    /\ UNCHANGED <<words, nextId, now, req, progress, gen, sessions, calls>>

\* ProgressService._count_mastered_words
CountMasteredWords(user_id, language) ==
    /\ resp' = [NoResp EXCEPT
                  !.op = "count_mastered_words", !.status = "ok",
                  !.user_id = user_id, !.language = language, !.time = now,
                  !.count = BandCount(words, user_id, language, "mastered")]
    /\ UNCHANGED <<words, nextId, now, req, progress, gen, sessions, calls>>

\* review_word: the body of the 200 answer, built from the word that
\* process_review returned
WordReviewResponse(word_id, word) ==
    [word_id |-> word_id,
     new_mastery_score |-> word.mastery_score,
     next_review_at |-> word.next_review_at,
     correct_count |-> word.correct_count,
     wrong_count |-> word.wrong_count]

\* review_word: the HTTP status the endpoint answers with, for what
\* process_review did (None: 404; a word: 200; an unhandled exception: 500)
review_word(status) ==
    IF status = "none" THEN 404 ELSE IF status = "ok" THEN 200 ELSE 500

\* a handler that stamps last_reviewed_at on every word of the user before
\* it reaches line 213
ReviewResultStampsAll(ws, g, word_id, user_id, correct, t) ==
    LET base == [NoResp EXCEPT !.op = "process_review",
                               !.word_id = word_id, !.user_id = user_id,
                               !.correct = correct, !.found = g.found,
                               !.prior = g.word, !.time = t]
    IN IF ~g.found
       THEN [resp |-> [base EXCEPT !.status = "none",
                                   !.http = review_word("none")],
             words |-> ws]
       ELSE [resp |-> [base EXCEPT !.status = "AttributeError",
                                   !.http = review_word("AttributeError")],
             words |-> [i \in DOMAIN ws |->
                          IF ws[i].user_id = user_id
                          THEN [ws[i] EXCEPT !.last_reviewed_at = t]
                          ELSE ws[i]]]

\* What process_review does once `word = await self.get(...)` has returned
\* g: the response, and the table after it.
ReviewResult(ws, g, word_id, user_id, correct, t) ==
    LET base == [NoResp EXCEPT !.op = "process_review",
                               !.word_id = word_id, !.user_id = user_id,
                               !.correct = correct, !.found = g.found,
                               !.prior = g.word, !.time = t]
    IN IF ~g.found
       THEN \* if not word: return None
            [resp |-> [base EXCEPT !.status = "none",
                                   !.http = review_word("none")],
             words |-> ws]
       ELSE IF PrintInfoRaises
       THEN \* line 213 raises; nothing was assigned, nothing is flushed
            [resp |-> [base EXCEPT !.status = "AttributeError",
                                   !.http = review_word("AttributeError")],
             words |-> ws]
       ELSE \* lines 215-255: assign, flush, refresh, return word
            LET w == ReviewedWord(g.word, correct, t)
                ws2 == IF word_id \in DOMAIN ws
                       THEN [ws EXCEPT ![word_id] = w] ELSE ws
            IN [resp |-> [base EXCEPT !.status = "ok", !.word = w,
                                      !.http = review_word("ok")],
                words |-> ws2]

\* WordCRUD.process_review, one request at a time
ProcessReview(word_id, user_id, correct) ==
    LET g == get(words, word_id, user_id)
        out == ReviewResult(words, g, word_id, user_id, correct, now)
    IN /\ \A r \in Requests : req[r].pc = "idle"
       /\ resp' = out.resp
       /\ words' = out.words
       /\ UNCHANGED <<nextId, now, req, progress, gen, sessions, calls>>

\* process_review up to its first await, `word = await self.get(...)`:
\* the handler holds what the query returned
ReviewGet(r, word_id, user_id, correct) ==
    LET g == get(words, word_id, user_id)
        held == {q \in Requests \ {r} :
                    req[q].pc = "got" /\ req[q].found /\ g.found
                        /\ req[q].word_id = word_id}
    IN /\ req[r].pc = "idle"
       /\ req' = [q \in Requests |->
                    IF q = r
                    THEN [pc |-> "got", word_id |-> word_id,
                          user_id |-> user_id, correct |-> correct,
                          found |-> g.found, word |-> g.word,
                          raced |-> held # {}, new_words |-> <<>>]
                    ELSE IF q \in held THEN [req[q] EXCEPT !.raced = TRUE]
                    ELSE req[q]]
       /\ UNCHANGED <<words, nextId, now, resp,
                      progress, gen, sessions, calls>>

\* process_review from the return of get to its own return (or raise)
ReviewRun(r) ==
    LET q == req[r]
        out == ReviewResult(words, [found |-> q.found, word |-> q.word],
                            q.word_id, q.user_id, q.correct, now)
    IN /\ q.pc = "got"
       /\ resp' = out.resp
       /\ words' = out.words
       /\ req' = [req EXCEPT ![r] = IdleReq]
       /\ UNCHANGED <<nextId, now, progress, gen, sessions, calls>>

\* the clock advances
Tick ==
    /\ now < MaxTime
    /\ now' = now + 1
    /\ UNCHANGED <<words, nextId, resp, req, progress, gen, sessions, calls>>

\* ---- the word store, one request at a time
\* ---- create_word and bulk_import_words

\* str.lower() and func.lower(), on the texts of the model
Lower(text) == IF text = "Pas" THEN "pas" ELSE text

\* WordCRUD.exists_for_user
exists_for_user(ws, user_id, croatian, language) ==
    \E i \in DOMAIN ws :
        /\ ws[i].user_id = user_id
        /\ Lower(ws[i].croatian) = Lower(croatian)
        /\ (language = NoLanguage \/ ws[i].language = language)

\* the lists a bulk-import request carries
WordLists == {<<a>> : a \in Texts} \cup {<<a, b>> : a \in Texts, b \in Texts}

RECURSIVE Assessed(_, _)
\* the words of new_words whose assessment has an "english" (ok[k]), in order
Assessed(new_words, ok) ==
    IF new_words = <<>> THEN <<>>
    ELSE LET rest == Assessed(Tail(new_words),
                              [k \in 1..(Len(new_words) - 1) |-> ok[k + 1]])
         IN IF ok[1] THEN <<Head(new_words)>> \o rest ELSE rest

\* the table after crud.create for each text of created, in order
CreatedAll(ws, first_id, user_id, language, created, t) ==
    [i \in (DOMAIN ws) \cup (first_id..(first_id + Len(created) - 1)) |->
        IF i \in DOMAIN ws THEN ws[i]
        ELSE NewWord(user_id, language, created[i - first_id + 1], t)]

\* create_word up to the return of `await crud.exists_for_user(...)`
CreateWordCheck(r, user_id, language, croatian) ==
    /\ req[r].pc = "idle"
    /\ IF exists_for_user(words, user_id, croatian, language)
       THEN /\ resp' = [NoResp EXCEPT !.op = "create_word",
                                      !.status = "conflict", !.http = 409,
                                      !.user_id = user_id,
                                      !.language = language, !.time = now]
            /\ req' = req
       ELSE /\ req' = [req EXCEPT ![r] =
                          [IdleReq EXCEPT
                             !.pc = "checked", !.user_id = user_id,
                             !.word = NewWord(user_id, language, croatian,
                                              NoTime)]]
            /\ resp' = resp
    /\ UNCHANGED <<words, nextId, now, progress, gen, sessions, calls>>

\* create_word from there on: crud.create and the 201 answer
CreateWordInsert(r) ==
    LET q == req[r] IN
    /\ q.pc = "checked"
    /\ nextId <= MaxWords
    /\ words' = CreatedAll(words, nextId, q.user_id, q.word.language,
                           <<q.word.croatian>>, now)
    /\ nextId' = nextId + 1
    /\ resp' = [NoResp EXCEPT !.op = "create_word", !.status = "ok",
                              !.http = 201, !.word_id = nextId,
                              !.user_id = q.user_id,
                              !.language = q.word.language, !.found = TRUE,
                              !.word = words'[nextId], !.time = now]
    /\ req' = [req EXCEPT ![r] = IdleReq]
    /\ UNCHANGED <<now, progress, gen, sessions, calls>>

\* bulk_import_words: the loop that filters out the words that exist
BulkImportFilter(r, user_id, language, request_words) ==
    LET new_words == SelectSeq(request_words,
                               LAMBDA w : ~exists_for_user(words, user_id, w,
                                                           language))
    IN
    /\ req[r].pc = "idle"
    /\ IF new_words = <<>>
       THEN /\ resp' = [NoResp EXCEPT !.op = "bulk_import_words",
                                      !.status = "ok", !.http = 200,
                                      !.user_id = user_id,
                                      !.language = language,
                                      !.count = 0, !.time = now]
            /\ req' = req
       ELSE /\ req' = [req EXCEPT ![r] =
                          [IdleReq EXCEPT
                             !.pc = "filtered", !.user_id = user_id,
                             !.word = NewWord(user_id, language, "", NoTime),
                             !.new_words = new_words]]
            /\ resp' = resp
    /\ UNCHANGED <<words, nextId, now, progress, gen, sessions, calls>>

\* bulk_import_words from the assessments on: crud.create for every
\* assessment that has an "english"; the assessment echoes the word
BulkImportCreate(r) ==
    LET q == req[r] IN
    /\ q.pc = "filtered"
    /\ \E ok \in [1..Len(q.new_words) -> BOOLEAN] :
          LET created == Assessed(q.new_words, ok) IN
          /\ nextId + Len(created) - 1 <= MaxWords
          /\ words' = CreatedAll(words, nextId, q.user_id, q.word.language,
                                 created, now)
          /\ nextId' = nextId + Len(created)
          /\ resp' = [NoResp EXCEPT !.op = "bulk_import_words",
                                    !.status = "ok", !.http = 200,
                                    !.user_id = q.user_id,
                                    !.language = q.word.language,
                                    !.count = Len(created), !.time = now]
    /\ req' = [req EXCEPT ![r] = IdleReq]
    /\ UNCHANGED <<now, progress, gen, sessions, calls>>

NextImport ==
    \/ \E r \in Requests, c \in Texts : CreateWordCheck(r, 1, "hr", c)
    \/ \E r \in Requests : CreateWordInsert(r)
    \/ \E r \in Requests, l \in WordLists : BulkImportFilter(r, 1, "hr", l)
    \/ \E r \in Requests : BulkImportCreate(r)

SpecImport == Init /\ [][NextImport]_vars

\* ---- sessions

ExerciseTypes == {"conversation", "grammar"}

\* Session(user_id, exercise_type, started_at=now); ended_at is NULL
NewSession(user_id, exercise_type, t) ==
    [user_id |-> user_id, exercise_type |-> exercise_type,
     started_at |-> t, ended_at |-> NoTime]

\* the WHERE clause of get_active: the user's sessions of the exercise type
\* that have not ended
ActiveIds(ss, user_id, exercise_type) ==
    {i \in DOMAIN ss :
        /\ ss[i].user_id = user_id
        /\ ss[i].ended_at = NoTime
        /\ ss[i].exercise_type = exercise_type}

\* SessionCRUD.get_active: the ids the query may return (0 for None):
\* order_by(started_at.desc()).limit(1)
get_active(ss, user_id, exercise_type) ==
    LET A == ActiveIds(ss, user_id, exercise_type) IN
    IF A = {} THEN {0}
    ELSE {i \in A : \A j \in A : ss[j].started_at <= ss[i].started_at}

\* get_or_create_active up to the return of `await self.get_active(...)`
GetOrCreateActiveCheck(r, user_id, exercise_type) ==
    /\ calls[r].pc = "idle"
    /\ \E existing \in get_active(sessions, user_id, exercise_type) :
          IF existing # 0
          THEN /\ resp' = [NoResp EXCEPT !.op = "get_or_create_active",
                                         !.status = "ok",
                                         !.user_id = user_id,
                                         !.session_id = existing,
                                         !.created = FALSE, !.time = now]
               /\ calls' = calls
          ELSE /\ calls' = [calls EXCEPT ![r] =
                               [pc |-> "creating", user_id |-> user_id,
                                exercise_type |-> exercise_type,
                                existing |-> 0]]
               /\ resp' = resp
    /\ UNCHANGED <<words, nextId, now, req, progress, gen, sessions>>

\* get_or_create_active from there on: self.create and (new_session, True)
GetOrCreateActiveCreate(r) ==
    LET c == calls[r] IN
    /\ c.pc = "creating"
    /\ Len(sessions) < MaxSessions
    /\ sessions' = Append(sessions,
                          NewSession(c.user_id, c.exercise_type, now))
    /\ resp' = [NoResp EXCEPT !.op = "get_or_create_active",
                              !.status = "ok", !.user_id = c.user_id,
                              !.session_id = Len(sessions) + 1,
                              !.created = TRUE, !.time = now]
    /\ calls' = [calls EXCEPT ![r] = IdleCall]
    /\ UNCHANGED <<words, nextId, now, req, progress, gen>>

\* SessionCRUD.end_session
EndSession(session_id, user_id) ==
    /\ IF /\ session_id \in DOMAIN sessions
          /\ sessions[session_id].user_id = user_id
          /\ sessions[session_id].ended_at = NoTime
       THEN /\ sessions' = [sessions EXCEPT ![session_id].ended_at = now]
            /\ resp' = [NoResp EXCEPT !.op = "end_session",
                                      !.status = "ok", !.user_id = user_id,
                                      !.session_id = session_id, !.time = now]
       ELSE /\ sessions' = sessions
            /\ resp' = [NoResp EXCEPT !.op = "end_session",
                                      !.status = "none", !.user_id = user_id,
                                      !.session_id = session_id, !.time = now]
    /\ UNCHANGED <<words, nextId, now, req, progress, gen, calls>>

NextSession ==
    \/ \E r \in Requests, e \in ExerciseTypes :
          GetOrCreateActiveCheck(r, 1, e)
    \/ \E r \in Requests : GetOrCreateActiveCreate(r)
    \/ \E i \in 1..MaxSessions, u \in Users : EndSession(i, u)

SpecSession == Init /\ [][NextSession]_vars

\* ---- topic progress

Topics == {1, 2}
\* the values of update_progress's `correct`: None, True, False
CorrectArgs == {"None", "True", "False"}
ScoreDeltas == {-3, 0, 3}

\* TopicProgress(mastery_score=0, times_practiced=0)
NewProgress ==
    [mastery_score |-> 0, times_practiced |-> 0, last_practiced_at |-> NoTime]

\* TopicProgressCRUD.get_or_create: the table with the record in it
get_or_create(pr, user_id, topic_id) ==
    IF <<user_id, topic_id>> \in DOMAIN pr THEN pr
    ELSE [k \in (DOMAIN pr) \cup {<<user_id, topic_id>>} |->
            IF k \in DOMAIN pr THEN pr[k] ELSE NewProgress]

\* the score update without the upper clamp
NewTopicScoreUnclamped(mastery_score, score_delta, correct_arg) ==
    IF correct_arg = "True" THEN mastery_score + 1
    ELSE IF correct_arg = "False" THEN Max(0, mastery_score - 1)
    ELSE IF score_delta # 0 THEN Max(0, mastery_score + score_delta)
    ELSE mastery_score

\* lines 195-203: the score update_progress stores
NewTopicScore(mastery_score, score_delta, correct_arg) ==
    IF correct_arg = "True" THEN Min(TopicMaxMastery, mastery_score + 1)
    ELSE IF correct_arg = "False" THEN Max(0, mastery_score - 1)
    ELSE IF score_delta # 0
    THEN Max(0, Min(TopicMaxMastery, mastery_score + score_delta))
    ELSE mastery_score

\* TopicProgressCRUD.get_or_create as its own request
GetOrCreate(user_id, topic_id) ==
    /\ progress' = get_or_create(progress, user_id, topic_id)
    /\ resp' = [NoResp EXCEPT !.op = "get_or_create", !.status = "ok",
                              !.user_id = user_id, !.topic_id = topic_id,
                              !.time = now]
    /\ UNCHANGED <<words, nextId, now, req, gen, sessions, calls>>

\* TopicProgressCRUD.update_progress
UpdateProgress(user_id, topic_id, score_delta, correct_arg) ==
    LET pr == get_or_create(progress, user_id, topic_id)
        row == pr[<<user_id, topic_id>>]
    IN
    /\ row.times_practiced < MaxPractice
    /\ progress' =
          [pr EXCEPT ![<<user_id, topic_id>>] =
              [mastery_score |-> NewTopicScore(row.mastery_score, score_delta,
                                               correct_arg),
               times_practiced |-> row.times_practiced + 1,
               last_practiced_at |-> now]]
    /\ resp' = [NoResp EXCEPT !.op = "update_progress", !.status = "ok",
                              !.user_id = user_id, !.topic_id = topic_id,
                              !.score_delta = score_delta,
                              !.correct_arg = correct_arg, !.time = now]
    /\ UNCHANGED <<words, nextId, now, req, gen, sessions, calls>>

NextTopic ==
    \/ \E t \in Topics : GetOrCreate(1, t)
    \/ \E t \in Topics, d \in ScoreDeltas, c \in CorrectArgs :
          UpdateProgress(1, t, d, c)

SpecTopic == Init /\ [][NextTopic]_vars

\* ---- GeminiService._generate

\* candidate.finish_reason other than 1 (STOP), as reason_names names them
Blocked == {"SAFETY", "RECITATION", "OTHER"}

\* what one pass of the loop body meets: a normal response; a response
\* without candidates; a candidate with finish_reason # 1; ResourceExhausted;
\* another GoogleAPIError; any other exception (response.text included)
Outcomes ==
    {"text", "empty", "rate_limit", "api_error", "other_error"} \cup Blocked

\* max_tokens of _generate (default) and of _generate_bulk
MaxTokens == {1024, 4096}

\* the errors the loop goes on after, with ResourceExhausted among them
RetriedWithRateLimit(outcome) ==
    outcome \in {"rate_limit", "api_error", "other_error"}

\* the except clauses that do not raise: GoogleAPIError and Exception
Retried(outcome) == outcome \in {"api_error", "other_error"}

\* what _generate returns or raises when a pass ends the call
GenResult(outcome) ==
    IF outcome = "text" THEN "text"
    ELSE IF outcome = "rate_limit" THEN "GeminiRateLimitError"
    ELSE "GeminiServiceError"

\* the call starts: attempt 0 of range(MAX_RETRIES)
GenStart(max_tokens) ==
    /\ gen.pc \in {"idle", "done"}
    /\ gen' = [IdleGen EXCEPT !.pc = "calling", !.max_tokens = max_tokens]
    /\ UNCHANGED <<words, nextId, now, resp, req, progress, sessions, calls>>

\* one pass of the loop body: generate_content_async and what follows it
GenAttempt(outcome) ==
    /\ gen.pc = "calling"
    /\ gen' =
          IF ~Retried(outcome)
          THEN \* return response.text, or raise out of the loop
               [gen EXCEPT !.pc = "done",
                           !.outcomes = Append(@, outcome),
                           !.result = GenResult(outcome)]
          ELSE IF gen.attempt < MAX_RETRIES - 1
          THEN \* await asyncio.sleep(...)
               [gen EXCEPT !.pc = "sleeping",
                           !.outcomes = Append(@, outcome),
                           !.delay = IF outcome = "api_error"
                                     THEN gen.attempt + 1 ELSE 1]
          ELSE \* the loop is over: raise GeminiServiceError after retries
               [gen EXCEPT !.pc = "done",
                           !.outcomes = Append(@, outcome),
                           !.result = "GeminiServiceError"]
    /\ UNCHANGED <<words, nextId, now, resp, req, progress, sessions, calls>>

\* the sleep is over: the next attempt of the for loop
GenWake ==
    /\ gen.pc = "sleeping"
    /\ gen' = [gen EXCEPT !.pc = "calling", !.attempt = @ + 1, !.delay = 0]
    /\ UNCHANGED <<words, nextId, now, resp, req, progress, sessions, calls>>

\* the steps of a call in progress
GenStep == (\E o \in Outcomes : GenAttempt(o)) \/ GenWake

NextGen ==
    \/ \E m \in MaxTokens : GenStart(m)
    \/ \E o \in Outcomes : GenAttempt(o)
    \/ GenWake

\* every awaited model call and every sleep comes back
SpecGen == Init /\ [][NextGen]_vars /\ WF_vars(GenStep)

Next ==
    \/ \E u \in Users : Create(u, "hr", "pas")
    \/ \E i \in AnyIds, u \in Users,
          b \in {x \in UpdateBodies : x.fields = {"croatian"}} : Update(i, u, b)
    \/ \E i \in AnyIds, u \in Users : Delete(i, u)
    \/ \E i \in AnyIds, u \in Users, c \in BOOLEAN : ProcessReview(i, u, c)
    \/ Tick

Spec == Init /\ [][Next]_vars

\* ---- due selection over words of several languages
NextDue ==
    \/ \E u \in Users, l \in Languages : Create(u, l, "pas")
    \/ \E u \in Users, l \in Languages \cup {NoLanguage}, n \in 1..MaxLimit :
          GetDueWords(u, l, n)
    \/ \E u \in Users, l \in Languages \cup {NoLanguage} : CountDueWords(u, l)
    \/ Tick

SpecDue == Init /\ [][NextDue]_vars

\* ---- review requests of one user interleaved at their await
NextConc ==
    \/ \E u \in {1} : Create(u, "hr", "pas")
    \/ \E r \in Requests, i \in WordIds, u \in {1}, c \in BOOLEAN :
          ReviewGet(r, i, u, c)
    \/ \E r \in Requests : ReviewRun(r)

SpecConc == Init /\ [][NextConc]_vars

\* updates, reviews and every read of one user's vocabulary
NextFrame ==
    \/ \E u \in Users : Create(u, "hr", "pas")
    \/ \E i \in AnyIds, u \in Users, b \in UpdateBodies : Update(i, u, b)
    \/ \E i \in AnyIds, u \in Users, c \in BOOLEAN : ProcessReview(i, u, c)
    \/ \E i \in AnyIds, u \in Users : Get(i, u)
    \/ \E u \in Users, n \in 1..MaxLimit, k \in 0..1,
          sb \in {NoSort, "mastery_score"}, sd \in {"asc", "desc"} :
          GetMulti(u, "hr", k, n, sb, sd)
    \/ \E u \in Users, n \in 1..MaxLimit : GetDueWords(u, "hr", n)
    \/ \E u \in Users : CountDueWords(u, "hr")
    \/ \E u \in Users, n \in 1..MaxLimit, x \in SUBSET {1} :
          GetLowMasteryWords(u, NoLanguage, n, x)
    \/ \E u \in Users, n \in 1..MaxLimit, x \in SUBSET {1} :
          GetRandomWords(u, NoLanguage, n, x)

SpecFrame == Init /\ [][NextFrame]_vars

\* reviews of, and dashboard queries over, a stored vocabulary
NextStored ==
    \/ \E i \in WordIds, u \in Users, c \in BOOLEAN : ProcessReview(i, u, c)
    \/ \E u \in Users : GetVocabularyStats(u, "hr")
    \/ \E u \in Users : CountMasteredWords(u, "hr")
    \/ Tick

SpecStored == InitStored /\ [][NextStored]_vars

\* one user's reviews and due queries
NextReviewDue ==
    \/ Create(1, "hr", "pas")
    \/ \E i \in WordIds, c \in BOOLEAN : ProcessReview(i, 1, c)
    \/ \E n \in 1..MaxLimit : GetDueWords(1, NoLanguage, n)
    \/ CountDueWords(1, NoLanguage)
    \/ Tick

SpecReviewDue == Init /\ [][NextReviewDue]_vars

\* ---- properties

Range(s) == {s[k] : k \in 1..Len(s)}

\* the word exists and belongs to the user
Owned(ws, word_id, user_id) ==
    word_id \in DOMAIN ws /\ ws[word_id].user_id = user_id

\* the last completed call was a review of an existing word of the caller
ReviewedExisting ==
    resp.op = "process_review" /\ Owned(words, resp.word_id, resp.user_id)

\* the row of the reviewed word as the table holds it after the call
Stored == words[resp.word_id]

C3_Streak ==
    ReviewedExisting =>
        Stored.correct_streak =
            IF resp.correct THEN resp.prior.correct_streak + 1 ELSE 0

\* C4: after every review lastReviewedAt is the review time and
\* nextReviewAt is at least one day after lastReviewedAt.
C4_NextReviewAfterLast ==
    ReviewedExisting =>
        /\ Stored.last_reviewed_at = resp.time
        /\ Stored.next_review_at >= Stored.last_reviewed_at + TicksPerDay

\* C5: process_review is total on existing words: it raises nothing and
\* returns the updated word.
C5_Total ==
    ReviewedExisting =>
        /\ resp.status = "ok"
        /\ resp.word = Stored
        /\ resp.word.last_reviewed_at = resp.time

\* C6: no lost update: a review that overlapped another review of the same
\* word still adds exactly one to correctCount + wrongCount of the persisted
\* row when it completes, so two concurrent reviews add exactly two.
C6_NoLostUpdate ==
    [][\A r \in Requests :
          (req[r].pc = "got" /\ req'[r].pc = "idle" /\ req[r].raced
              /\ Owned(words, req[r].word_id, req[r].user_id))
          => words'[req[r].word_id].correct_count
                 + words'[req[r].word_id].wrong_count
             = words[req[r].word_id].correct_count
                 + words[req[r].word_id].wrong_count + 1]_vars

\* C8: each review raises exactly one of correctCount and wrongCount by
\* exactly one and leaves the other alone, and no step lowers either.
C8_Counters ==
    /\ [](ReviewedExisting =>
            IF resp.correct
            THEN /\ Stored.correct_count = resp.prior.correct_count + 1
                 /\ Stored.wrong_count = resp.prior.wrong_count
            ELSE /\ Stored.wrong_count = resp.prior.wrong_count + 1
                 /\ Stored.correct_count = resp.prior.correct_count)
    /\ [][\A i \in DOMAIN words \cap DOMAIN words' :
             /\ words'[i].correct_count >= words[i].correct_count
             /\ words'[i].wrong_count >= words[i].wrong_count]_vars

\* C9: a review naming a word id that does not exist, or a word of another
\* user, returns None (HTTP 404) and changes no stored word.
C9_NotFound ==
    [][(resp'.op = "process_review"
            /\ ~Owned(words, resp'.word_id, resp'.user_id))
       => (resp'.status = "none" /\ resp'.http = 404 /\ words' = words)]_vars

\* a review of another user's existing word has been answered
C9_Witness ==
    /\ resp.op = "process_review"
    /\ resp.word_id \in DOMAIN words
    /\ words[resp.word_id].user_id # resp.user_id
    /\ resp.status = "none"

\* C10: a created word has easeFactor 2.5, masteryScore 0, all counters 0
\* and nextReviewAt = creation time; and while it is unreviewed,
\* get_due_words of its owner (in its language or without a language
\* filter) returns it whenever the limit covers the owner's words.
C10_NewWordDue ==
    /\ resp.op = "create" =>
          /\ resp.word_id \in DOMAIN words
          /\ words[resp.word_id].ease_factor = 250
          /\ words[resp.word_id].mastery_score = 0
          /\ words[resp.word_id].correct_count = 0
          /\ words[resp.word_id].wrong_count = 0
          /\ words[resp.word_id].correct_streak = 0
          /\ words[resp.word_id].next_review_at = resp.time
    /\ resp.op = "get_due_words" =>
          \A i \in DOMAIN words :
              (/\ words[i].user_id = resp.user_id
               /\ resp.language \in {NoLanguage, words[i].language}
               /\ words[i].last_reviewed_at = NoTime
               /\ resp.limit >= Cardinality(
                      {j \in DOMAIN words : words[j].user_id = resp.user_id}))
              => i \in Range(resp.ids)

\* get_due_words returned a word that was created at this very clock reading
C10_Witness ==
    /\ resp.op = "get_due_words"
    /\ \E i \in Range(resp.ids) :
          /\ words[i].next_review_at = resp.time
          /\ words[i].last_reviewed_at = NoTime
          /\ words[i].ease_factor = 250

\* the seven spaced-repetition fields of a word
Srs(word) ==
    <<word.mastery_score, word.ease_factor, word.correct_count,
      word.wrong_count, word.correct_streak, word.next_review_at,
      word.last_reviewed_at>>

\* C11: a step changes a spaced-repetition field of a persisting word only
\* when it is a process_review step: update and every read (get, get_multi,
\* get_due_words, count_due_words, get_low_mastery_words, get_random_words)
\* leave the seven fields of every word as they were.
C11_SrsFrame ==
    [][\A i \in (DOMAIN words) \cap (DOMAIN words') :
          Srs(words'[i]) # Srs(words[i]) => resp'.op = "process_review"]_vars

\* an update whose body named mastery_score changed the word's text and
\* none of its seven fields
C11_Witness ==
    /\ resp.op = "update"
    /\ resp.status = "ok"
    /\ "mastery_score" \in resp.fields
    /\ resp.word.croatian # resp.prior.croatian
    /\ resp.word = words[resp.word_id]
    /\ Srs(resp.word) = Srs(resp.prior)

\* the words of the request's user (and language) that were due when the
\* last get_due_words ran
DueOfRequest ==
    {i \in DOMAIN words :
        /\ words[i].user_id = resp.user_id
        /\ (resp.language = NoLanguage \/ words[i].language = resp.language)
        /\ (words[i].next_review_at = NoTime
              \/ words[i].next_review_at <= resp.time)}

\* C12: get_due_words(user, limit) returns at most limit words, each one of
\* the user and due (next_review_at <= now, or absent); when it returns fewer
\* than limit words, every due word of the user in the requested language is
\* among them.
C12_DueSelection ==
    resp.op = "get_due_words" =>
        /\ Len(resp.ids) <= resp.limit
        /\ \A k \in 1..Len(resp.ids) :
              /\ resp.ids[k] \in DOMAIN words
              /\ words[resp.ids[k]].user_id = resp.user_id
              /\ (words[resp.ids[k]].next_review_at = NoTime
                    \/ words[resp.ids[k]].next_review_at <= resp.time)
        /\ (Len(resp.ids) < resp.limit => DueOfRequest \subseteq Range(resp.ids))

\* a request that returned fewer words than its limit, all the due words of
\* its user, while another user's due word stayed out
C12_Witness ==
    /\ resp.op = "get_due_words"
    /\ resp.ids # <<>>
    /\ Len(resp.ids) < resp.limit
    /\ DueOfRequest = Range(resp.ids)
    /\ \E i \in DOMAIN words :
          words[i].user_id # resp.user_id /\ words[i].next_review_at <= resp.time

\* the calendar day of next_review_at; -1 when it is absent
DueDate(word) ==
    IF word.next_review_at = NoTime THEN -1
    ELSE word.next_review_at \div TicksPerDay

\* C13: the list get_due_words returns is in ascending order of due date,
\* words without next_review_at first; when the limit cuts the list, no due
\* word left out has an earlier due date than a returned one. Only words of
\* the same due date come in an order that is not fixed.
C13_DueOrder ==
    resp.op = "get_due_words" =>
        /\ \A a, b \in 1..Len(resp.ids) :
              a < b =>
                /\ DueDate(words[resp.ids[a]]) <= DueDate(words[resp.ids[b]])
                /\ (words[resp.ids[b]].next_review_at = NoTime
                      => words[resp.ids[a]].next_review_at = NoTime)
        /\ \A i \in DueOfRequest \ Range(resp.ids), k \in 1..Len(resp.ids) :
              DueDate(words[i]) >= DueDate(words[resp.ids[k]])

\* the limit cut the list: the word returned is due a day before the word
\* left out
C13_Witness ==
    /\ resp.op = "get_due_words"
    /\ Len(resp.ids) = resp.limit
    /\ resp.ids # <<>>
    /\ \E i \in DueOfRequest \ Range(resp.ids) :
          DueDate(words[i]) > DueDate(words[resp.ids[1]])

\* C14: the review endpoint answers 200 for an existing word of the user;
\* the stored word is then the loaded word with the review applied, and the
\* body's new_mastery_score, next_review_at, correct_count and wrong_count
\* are those of the stored word.
C14_EndpointResponse ==
    ReviewedExisting =>
        /\ resp.http = 200
        /\ Stored = ReviewedWord(resp.prior, resp.correct, resp.time)
        /\ WordReviewResponse(resp.word_id, resp.word)
              = WordReviewResponse(resp.word_id, Stored)

StoredIntervalTicks == Stored.next_review_at - resp.time

\* C16: in a run of correct reviews of a fresh word (no wrong answer yet,
\* streak k - 1 and ease 2.5 + 0.1 (k - 1) before the k-th review, k <= 12)
\* the k-th review leaves streak k and ease 2.5 + 0.1 k, mastery 1000 from
\* the tenth review on, an interval not shorter than the one before, and of
\* 365 days once 6 x EF^(streak - 2) exceeds 365.
C16_CorrectRun ==
    (/\ ReviewedExisting
     /\ resp.correct
     /\ resp.prior.wrong_count = 0
     /\ resp.prior.correct_count = resp.prior.correct_streak
     /\ resp.prior.correct_streak < 12
     /\ resp.prior.ease_factor = 250 + 10 * resp.prior.correct_streak)
    => LET k == resp.prior.correct_streak + 1 IN
       /\ Stored.correct_streak = k
       /\ Stored.ease_factor = 250 + 10 * k
       /\ (k >= 10 => Stored.mastery_score = 1000)
       /\ (resp.prior.last_reviewed_at # NoTime =>
              StoredIntervalTicks >=
                  resp.prior.next_review_at - resp.prior.last_reviewed_at)
       /\ (k >= 3 =>
              LET grown == IntervalGrow([num |-> 6, den |-> 1],
                                        Stored.ease_factor, k - 2)
              IN grown.num > 365 * grown.den =>
                    StoredIntervalTicks = 365 * TicksPerDay)

\* C17: every review of an existing word updates its ease factor: a correct
\* one leaves prior + 0.1, an incorrect one max(1.3, prior - 0.74).
C17_EaseUpdate ==
    ReviewedExisting =>
        Stored.ease_factor =
            IF resp.correct THEN resp.prior.ease_factor + 10
            ELSE Max(130, resp.prior.ease_factor - 74)

\* C18: after every review of an existing word the stored mastery is
\* floor(min(1000, (correct / total) * 1000 * min(1, total / 10))) of the
\* updated counters, total = correct_count + wrong_count being at least 1.
C18_MasteryFormula ==
    ReviewedExisting =>
        LET total == Stored.correct_count + Stored.wrong_count IN
        /\ total > 0
        /\ Stored.mastery_score =
              Min(1000, (1000 * Stored.correct_count * Min(10, total))
                            \div (10 * total))

\* C19: the first review of a fresh word, answered correctly, leaves
\* correct_count 1, streak 1, mastery 100, ease 2.6 and the next review one
\* day after the review.
C19_FirstCorrect ==
    (/\ ReviewedExisting
     /\ resp.correct
     /\ resp.prior.correct_count = 0
     /\ resp.prior.wrong_count = 0
     /\ resp.prior.correct_streak = 0
     /\ resp.prior.mastery_score = 0
     /\ resp.prior.ease_factor = 250)
    => /\ Stored.correct_count = 1
       /\ Stored.correct_streak = 1
       /\ Stored.mastery_score = 100
       /\ Stored.ease_factor = 260
       /\ Stored.next_review_at = resp.time + TicksPerDay

\* C20: after an incorrect review of an existing word the next review is
\* exactly one day after the review.
C20_WrongIntervalOneDay ==
    (ReviewedExisting /\ ~resp.correct) =>
        Stored.next_review_at = resp.time + TicksPerDay

\* C21: after a correct review of an existing word the stored interval is
\* the one computed from the updated streak and ease factor (1 day for a
\* streak of at most 1, 6 days for 2, else min(365, 6 x EF^(streak - 2))),
\* and is at most 365 days.
C21_IntervalFromUpdated ==
    (ReviewedExisting /\ resp.correct) =>
        /\ StoredIntervalTicks =
              IntervalTicks(calculate_interval(Stored.correct_streak,
                                               Stored.ease_factor))
        /\ StoredIntervalTicks <= 365 * TicksPerDay

ScoresIn(lo, hi) ==
    Cardinality({i \in DOMAIN words :
                    /\ words[i].user_id = resp.user_id
                    /\ words[i].language = resp.language
                    /\ words[i].mastery_score >= lo
                    /\ words[i].mastery_score <= hi})

\* the words of the dashboard request's user and language whose mastery
\* is at least lo
ScoresFrom(lo) ==
    Cardinality({i \in DOMAIN words :
                    /\ words[i].user_id = resp.user_id
                    /\ words[i].language = resp.language
                    /\ words[i].mastery_score >= lo})

\* the dashboard's three counts add up to the user's words of the language
BandsSumToTotal ==
    resp.by_mastery.new + resp.by_mastery.learning + resp.by_mastery.mastered
        = ScoresFrom(0)

PriorProgress(k) == IF k \in DOMAIN progress THEN progress[k] ELSE NewProgress

GenCalls == Len(gen.outcomes)

\* every pass but the last one met an error that is retried
OnlyLastEnds ==
    \A k \in 1..(GenCalls - 1) :
        gen.outcomes[k] \in {"api_error", "other_error"}

\* C25: _generate makes at most MAX_RETRIES (3) model calls and always ends:
\* the first normal response returns its text; a rate-limit error or an
\* empty or blocked response ends the call at once, with
\* GeminiRateLimitError or GeminiServiceError; any other error is retried,
\* and the third failure raises GeminiServiceError.
C25_GenerateTerminates ==
    /\ [](/\ GenCalls <= 3
          /\ OnlyLastEnds
          /\ (gen.pc \in {"calling", "sleeping"} =>
                /\ GenCalls < 3
                /\ \A k \in 1..GenCalls :
                      gen.outcomes[k] \in {"api_error", "other_error"})
          /\ (gen.pc = "done" =>
                LET last == gen.outcomes[GenCalls] IN
                /\ GenCalls >= 1
                /\ (last = "text" => gen.result = "text")
                /\ (last = "rate_limit" =>
                      gen.result = "GeminiRateLimitError")
                /\ (last \in {"empty", "SAFETY", "RECITATION", "OTHER"} =>
                      gen.result = "GeminiServiceError")
                /\ (last \in {"api_error", "other_error"} =>
                      GenCalls = 3 /\ gen.result = "GeminiServiceError")))
    /\ (gen.pc = "calling" ~> gen.pc = "done")

\* a call that failed three times and raised GeminiServiceError
C25_Witness ==
    /\ gen.pc = "done"
    /\ GenCalls = 3
    /\ gen.outcomes[3] = "api_error"
    /\ gen.result = "GeminiServiceError"

\* C26, for the query that follows a review with no call in between: when
\* the last call was a review of an existing word at time t and the step is
\* a due query of the same user before t + 1 day, get_due_words does not
\* return the word and count_due_words does not count it.
C26_NotDueBeforeOneDay ==
    [][(/\ resp.op = "process_review"
        /\ Owned(words, resp.word_id, resp.user_id)
        /\ resp'.user_id = resp.user_id
        /\ resp'.time < resp.time + TicksPerDay)
       => /\ (resp'.op = "get_due_words" =>
                 resp.word_id \notin Range(resp'.ids))
          /\ (resp'.op = "count_due_words" =>
                 resp'.count < Cardinality({i \in DOMAIN words :
                                   words[i].user_id = resp.user_id}))]_vars

\* C27: after every review of an existing word 0 <= correct_streak <=
\* correct_count, and the streak is the number of correct reviews since the
\* last incorrect one: one more than before after a correct review, 0 after
\* an incorrect one.
C27_StreakCounts ==
    ReviewedExisting =>
        /\ 0 <= Stored.correct_streak
        /\ Stored.correct_streak <= Stored.correct_count
        /\ (resp.correct =>
              Stored.correct_streak = resp.prior.correct_streak + 1)
        /\ (~resp.correct => Stored.correct_streak = 0)

C29_NoDuplicateWords ==
    \A i, j \in DOMAIN words :
        (/\ i # j
         /\ words[i].user_id = words[j].user_id
         /\ words[i].language = words[j].language)
        => Lower(words[i].croatian) # Lower(words[j].croatian)

\* C30: a user has at most one session that has not ended per exercise
\* type, and a get_or_create_active that answers created = False returns a
\* session of the user that has not ended.
C30_OneActiveSession ==
    /\ \A i, j \in DOMAIN sessions :
          (/\ i # j
           /\ sessions[i].user_id = sessions[j].user_id
           /\ sessions[i].exercise_type = sessions[j].exercise_type
           /\ sessions[i].ended_at = NoTime)
          => sessions[j].ended_at # NoTime
    /\ (resp.op = "get_or_create_active" /\ ~resp.created) =>
          /\ resp.session_id \in DOMAIN sessions
          /\ sessions[resp.session_id].user_id = resp.user_id
          /\ sessions[resp.session_id].ended_at = NoTime
====
